---- MODULE Spec2Model ----
(***************************************************************************)
(* Model of backend/server.js: the Parse/Edit endpoint (an async handler   *)
(* that suspends once, at the extraction call), Get RFQ and Submit Quote,  *)
(* over the two process-wide in-memory stores rfqStore and quoteStore.     *)
(*                                                                         *)
(* JavaScript values.  Every scalar (string or number) is a TLA+ string;   *)
(* numbers are never computed with, only copied.  Undef stands for         *)
(* undefined (also: a key that is missing), Null for null.  An object read *)
(* from JSON is a function from key strings to values, its DOMAIN being    *)
(* the keys present; NullObj stands for a null or undefined object.        *)
(* Node runs a handler to its next await without interleaving, so every    *)
(* action below is one such run.                                           *)
(***************************************************************************)
EXTENDS Integers, Sequences, FiniteSets, TLC

(***************************************************************************)
(* Bounds of the model.                                                    *)
(***************************************************************************)
MaxReq == 2        \* Parse/Edit requests (each a process of its own)
MaxItems == 2      \* longest line_items array the extraction returns
MaxTicks == 1      \* clock advances
MaxQuotes == 1     \* Submit Quote calls
Epoch == 1700000   \* Date.now() at start (stands for a 13-digit timestamp)

SliceMod == 10000  \* Date.now().toString().slice(-4): the last four digits

Procs == 1..MaxReq

Undef == "<undefined>"
Null == "<null>"
NullObj == [isNullish |-> TRUE]
EmptyObj == << >>

VARIABLES
    rfqStore,    \* the object rfqStore: own keys -> stored result object
    quoteStore,  \* the object quoteStore: own keys -> array of quotes
    now,         \* Date.now()
    ticks,       \* number of clock advances so far
    pc,          \* per Parse/Edit request: idle, awaiting, done, failed
    req,         \* per request: what the handler keeps of req.body
    parseResp,   \* the latest Parse/Edit response
    getResp,     \* the latest Get RFQ response
    quoteResp,   \* the latest Submit Quote response
    nQuotes,     \* Submit Quote calls so far
    lastWrite,   \* history: per key, who wrote rfqStore last, and what
    last,        \* history: the latest step of a Parse/Edit handler
    cpc,         \* per Clarify request: idle, awaiting, done
    clarifyResp  \* the latest Clarify response

vars == <<rfqStore, quoteStore, now, ticks, pc, req, parseResp, getResp,
          quoteResp, nQuotes, lastWrite, last, cpc, clarifyResp>>

\* the state of the Clarify handlers
clarifyVars == <<cpc, clarifyResp>>

\* everything but the state of the Clarify handlers
serverVars == <<rfqStore, quoteStore, now, ticks, pc, req, parseResp, getResp,
                quoteResp, nQuotes, lastWrite, last>>

(***************************************************************************)
(* JavaScript helpers.                                                     *)
(***************************************************************************)
\* a value that `||` replaces by its right operand
Falsy(v) == v \in {Undef, Null, ""}

\* a || d
OrElse(v, d) == IF Falsy(v) THEN d ELSE v

\* o.k for an object o read from JSON: undefined when the key is missing
GetProp(o, k) == IF k \in DOMAIN o THEN o[k] ELSE Undef

\* o.k for a key holding an object: NullObj when missing
GetObj(o, k) == IF k \in DOMAIN o THEN o[k] ELSE NullObj

\* o?.k
OptProp(o, k) == IF o = NullObj THEN Undef ELSE GetProp(o, k)

\* the keys of a record whose value is not undefined, as JSON.stringify keeps
Defined(o, keys) == [k \in {x \in keys : o[x] # Undef} |-> o[k]]

SeqsUpTo(S, n) == UNION {[1..k -> S] : k \in 0..n}

(***************************************************************************)
(* The extraction output.  response.text is absent, a text JSON.parse      *)
(* rejects, or the JSON of parsedData.  parsedData is null or an object    *)
(* with some of the keys project_name, commercial, line_items; the value   *)
(* of line_items is null, an array of raw items (an element may be null),  *)
(* or something that is no array ("other": a string, a number, an object). *)
(***************************************************************************)
RawScenario ==
    [item_id |-> "a", description |-> "pipe", material_grade |-> "X52",
     size |-> [od_val |-> "10", od_unit |-> "in", wt_val |-> "0.5",
               wt_unit |-> "in", len_val |-> "6", len_unit |-> "m"],
     quantity |-> "50", uom |-> "pcs"]

\* no item_id, an unrecognised unit string, no quantity, no uom
RawNew ==
    [description |-> "flange",
     size |-> [od_val |-> "4", od_unit |-> "inches", wt_val |-> Null]]

\* the same item_id as RawScenario, everything else empty or missing
RawSameId == [item_id |-> "a", description |-> "", material_grade |-> Null]

RawItems == {RawScenario, RawNew, RawSameId}

ArrayOf(s) == [kind |-> "array", elems |-> s]

WithItems(h, la) == h @@ [line_items |-> la]

JsonText(pd) == [kind |-> "json", value |-> pd]

AbsentText == [kind |-> "absent"]
BadText == [kind |-> "unparseable"]

(***************************************************************************)
(* Parse/Edit: lines 149-180, the synchronous part after the await.        *)
(***************************************************************************)
\* JSON.parse(text) throws
JsonParseThrows(text) == text.kind = "unparseable"

\* JSON.parse(response.text || "{}")
parsedDataOf(text) == IF text.kind = "absent" THEN EmptyObj ELSE text.value

\* parsedData.line_items || []
lineItemsOf(parsedData) ==
    IF "line_items" \in DOMAIN parsedData /\ parsedData.line_items.kind # "null"
    THEN parsedData.line_items
    ELSE ArrayOf(<< >>)

\* lines 152-180 throw a TypeError: parsedData is null, line_items has no
\* map method, or an element of the array is null
MapThrows(parsedData) ==
    \/ parsedData = NullObj
    \/ /\ parsedData # NullObj
       /\ LET la == lineItemsOf(parsedData) IN
          \/ la.kind = "other"
          \/ \E i \in 1..Len(la.elems) : la.elems[i] = NullObj

\* `L${Date.now()}-${idx}`
MintItemId(t, idx) == "L" \o ToString(t) \o "-" \o ToString(idx)

\* Date.now().toString().slice(-4)
Last4(t) ==
    LET n == t % SliceMod
        pad == IF n < 10 THEN "000" ELSE IF n < 100 THEN "00"
               ELSE IF n < 1000 THEN "0" ELSE ""
    IN pad \o ToString(n)

\* a mapping that reads the value where the unit is, and the unit where the
\* value is
Dimension_Swapped(li, valKey, unitKey) ==
    [value |-> OptProp(GetObj(li, "size"), unitKey),
     unit |-> OptProp(GetObj(li, "size"), valKey)]

\* { value: li.size?.X_val, unit: li.size?.X_unit }
Dimension(li, valKey, unitKey) ==
    [value |-> OptProp(GetObj(li, "size"), valKey),
     unit |-> OptProp(GetObj(li, "size"), unitKey)]

\* a mapping that mints an identifier for every item
ItemIdOf_AlwaysMint(li, idx, t) == MintItemId(t, idx)

\* the item_id of the mapped item
ItemIdOf(li, idx, t) == OrElse(GetProp(li, "item_id"), MintItemId(t, idx))

\* a mapping that numbers the lines as the array indexes them, from 0
LineOf_ZeroBased(li, idx) == idx

\* the line of the mapped item (idx is the 0-based array index)
LineOf(li, idx) == idx + 1

\* the callback of line_items.map
MapItem(li, idx, t) ==
    [item_id |-> ItemIdOf(li, idx, t),
     line |-> LineOf(li, idx),
     description |-> OrElse(GetProp(li, "description"), ""),
     material_grade |-> OrElse(GetProp(li, "material_grade"), ""),
     size |-> [outer_diameter |-> Dimension(li, "od_val", "od_unit"),
               wall_thickness |-> Dimension(li, "wt_val", "wt_unit"),
               length |-> Dimension(li, "len_val", "len_unit")],
     quantity |-> GetProp(li, "quantity"),
     uom |-> GetProp(li, "uom")]

\* a mapping that walks the extracted items from the last to the first
items_Reversed(parsedData, t) ==
    LET elems == lineItemsOf(parsedData).elems
    IN [i \in 1..Len(elems) |-> MapItem(elems[Len(elems) + 1 - i], i - 1, t)]

\* const items = (parsedData.line_items || []).map(...)
items(parsedData, t) ==
    LET elems == lineItemsOf(parsedData).elems
    IN [i \in 1..Len(elems) |-> MapItem(elems[i], i - 1, t)]

\* an identifier that ignores the one the request supplies
rfqIdOf_AlwaysMint(bodyRfqId, t) == "RFQ-" \o Last4(t)

\* req.body.rfqId || `RFQ-${Date.now().toString().slice(-4)}`
rfqIdOf(bodyRfqId, t) == OrElse(bodyRfqId, "RFQ-" \o Last4(t))

\* the object `result`, as it is held in memory
result(bodyRfqId, parsedData, t) ==
    LET c == GetObj(parsedData, "commercial") IN
    [rfq_id |-> rfqIdOf(bodyRfqId, t),
     project_name |-> GetProp(parsedData, "project_name"),
     commercial |->
        [destination |-> OrElse(OptProp(c, "destination"), ""),
         incoterm |-> OrElse(OptProp(c, "incoterm"), ""),
         paymentTerm |-> OrElse(OptProp(c, "payment_terms"), ""),
         otherRequirements |-> OrElse(OptProp(c, "other_requirements"), "")],
     line_items |-> items(parsedData, t)]

(***************************************************************************)
(* res.json: JSON.stringify omits every key whose value is undefined.      *)
(***************************************************************************)
SerializeDim(d) == Defined(d, {"value", "unit"})

SerializeItem(it) ==
    Defined(it, {"item_id", "description", "material_grade", "quantity", "uom"})
    @@ [line |-> it.line,
        size |-> [outer_diameter |-> SerializeDim(it.size.outer_diameter),
                  wall_thickness |-> SerializeDim(it.size.wall_thickness),
                  length |-> SerializeDim(it.size.length)]]

Serialize(rfq) ==
    Defined(rfq, {"rfq_id", "project_name"})
    @@ [commercial |-> rfq.commercial,
        line_items |-> [i \in 1..Len(rfq.line_items) |->
                            SerializeItem(rfq.line_items[i])]]

(***************************************************************************)
(* The two stores are plain objects: a key that is not an own key is       *)
(* looked up in Object.prototype.                                          *)
(***************************************************************************)
\* names every object inherits ("constructor" stands for all of them)
ProtoKeys == {"constructor"}

\* a store that merges the new line items into the record it holds
StorePut_Merge(store, key, rec) ==
    [k \in DOMAIN store \cup {key} |->
        IF k # key THEN store[k]
        ELSE IF key \in DOMAIN store
        THEN [rec EXCEPT !.line_items = store[key].line_items \o rec.line_items]
        ELSE rec]

\* a store that keeps the record it holds
StorePut_KeepFirst(store, key, rec) ==
    [k \in DOMAIN store \cup {key} |->
        IF k \in DOMAIN store THEN store[k] ELSE rec]

\* rfqStore[key] = rec
StorePut(store, key, rec) ==
    [k \in DOMAIN store \cup {key} |-> IF k = key THEN rec ELSE store[k]]

NoBody == [nobody |-> TRUE]
ErrorBody(msg) == [error |-> msg]

\* Get RFQ, lines 224-228
GetRfqResponse(store, id) ==
    IF id \in DOMAIN store
    THEN [status |-> 200, body |-> Serialize(store[id])]
    ELSE IF id \in ProtoKeys
         THEN [status |-> 200, body |-> NoBody]   \* res.json(a function)
         ELSE [status |-> 404, body |-> ErrorBody("Not found")]

(***************************************************************************)
(* What a client and the extraction service can send.                      *)
(***************************************************************************)
\* a stored item as the extraction echoes it in its own record shape
Echo(it) ==
    LET s == SerializeItem(it)
        d(dim, vk, uk) ==
            [k \in {x \in {vk, uk} :
                      (IF x = vk THEN "value" ELSE "unit") \in DOMAIN dim} |->
                 dim[IF k = vk THEN "value" ELSE "unit"]]
    IN [k \in DOMAIN s \ {"line", "size"} |-> s[k]]
       @@ [size |-> d(s.size.outer_diameter, "od_val", "od_unit")
                    @@ d(s.size.wall_thickness, "wt_val", "wt_unit")
                    @@ d(s.size.length, "len_val", "len_unit")]

\* the subsequences of a sequence, as index sets
SubSeqAt(s, idx) ==
    LET RECURSIVE pick(_)
        pick(i) == IF i > Len(s) THEN << >>
                   ELSE IF i \in idx THEN <<s[i]>> \o pick(i + 1)
                   ELSE pick(i + 1)
    IN pick(1)

EchoArrays(its) ==
    {SubSeqAt([i \in 1..Len(its) |-> Echo(its[i])], idx) :
        idx \in SUBSET (1..Len(its))}

FullHeader ==
    [project_name |-> "P1",
     commercial |-> [destination |-> "Houston", payment_terms |-> "NET30",
                     incoterm |-> Null]]

\* the texts the extraction call can resolve with, its line_items arrays
\* being those of `arrays` and the echoes of the current items
Responses(arrays, currentItems) ==
    {AbsentText, BadText, JsonText(NullObj), JsonText(EmptyObj),
     JsonText([line_items |-> [kind |-> "null", elems |-> << >>]]),
     JsonText([line_items |-> [kind |-> "other", elems |-> << >>]]),
     JsonText([line_items |-> ArrayOf(<<NullObj>>)])}
    \cup {JsonText(WithItems(FullHeader, ArrayOf(s))) :
            s \in arrays \cup EchoArrays(currentItems)}

\* every array of at most MaxItems raw items
AllArrays == SeqsUpTo(RawItems, MaxItems)

\* the arrays of two racing requests: none, one item, two items
RaceArrays == {<< >>, <<RawScenario>>, <<RawNew, RawSameId>>}

\* req.body.rfqId of any client: none, or an identifier of its own choice
BodyRfqIds == {Undef, "R1"}

\* req.body.rfqId of a client that creates an RFQ and then edits it
EditRfqIds == IF DOMAIN rfqStore = {} THEN {Undef} ELSE DOMAIN rfqStore

\* req.body.currentLineItems: missing, not JSON, the JSON null, or the JSON
\* of the line items of the RFQ the client last got from this server
CurrentLineItemsInputs(id) ==
    {[kind |-> "missing"], [kind |-> "unparseable"], [kind |-> "null"]}
    \cup {[kind |-> "array", key |-> k] : k \in {id} \cap DOMAIN rfqStore}

NoReq == [rfqId |-> Undef, currentItems |-> << >>]
NoResp == [status |-> 0, body |-> NoBody]
\* a step of request p: the text the extraction resolved with, the request's
\* currentItems, and the line items stored under the result's key before
Step(op, p, text, current, prior) ==
    [op |-> op, p |-> p, text |-> text, current |-> current, prior |-> prior]

Init ==
    /\ rfqStore = << >>
    /\ quoteStore = << >>
    /\ now = Epoch
    /\ ticks = 0
    /\ pc = [p \in Procs |-> "idle"]
    /\ req = [p \in Procs |-> NoReq]
    /\ parseResp = [p |-> 0] @@ NoResp
    /\ getResp = [id |-> Undef] @@ NoResp
    /\ quoteResp = [id |-> Undef] @@ NoResp
    /\ nQuotes = 0
    /\ lastWrite = << >>
    /\ last = Step("init", 0, AbsentText, << >>, << >>)
    /\ cpc = [c \in Procs |-> "idle"]
    /\ clarifyResp = [c |-> 0, why |-> "none"] @@ NoResp

\* a catch block that stores what the handler has built so far
ParseFail_StoresPartial(p, op, text, msg) ==
    /\ pc' = [pc EXCEPT ![p] = "failed"]
    /\ req' = [req EXCEPT ![p] = NoReq]
    /\ parseResp' = [p |-> p, status |-> 500, body |-> ErrorBody(msg)]
    /\ last' = Step(op, p, text, << >>, << >>)
    /\ rfqStore' = StorePut(rfqStore, rfqIdOf(req[p].rfqId, now),
                            result(req[p].rfqId, EmptyObj, now))
    /\ UNCHANGED <<quoteStore, lastWrite>>

\* the catch block, lines 187-190
ParseFail(p, op, text, msg) ==
    /\ pc' = [pc EXCEPT ![p] = "failed"]
    /\ req' = [req EXCEPT ![p] = NoReq]
    /\ parseResp' = [p |-> p, status |-> 500, body |-> ErrorBody(msg)]
    /\ last' = Step(op, p, text, << >>, << >>)
    /\ UNCHANGED <<rfqStore, quoteStore, lastWrite>>

\* lines 39-100: read the body, read and delete the files, call the
\* extraction service and suspend
ParseStart(p, ids) ==
    /\ pc[p] = "idle"
    /\ \A q \in 1..(p - 1) : pc[q] # "idle"   \* requests are numbered as they arrive
    /\ \E id \in ids, filesOk \in BOOLEAN :
       \E cli \in CurrentLineItemsInputs(id) :
          LET currentItems ==
                  IF cli.kind = "array"
                  THEN rfqStore[cli.key].line_items
                  ELSE << >>
          IN  IF cli.kind = "null"
              THEN ParseFail(p, "start", AbsentText, "TypeError")
              ELSE IF ~filesOk
              THEN ParseFail(p, "start", AbsentText, "ENOENT")
              ELSE /\ pc' = [pc EXCEPT ![p] = "awaiting"]
                   /\ req' = [req EXCEPT ![p] = [rfqId |-> id,
                                                 currentItems |-> currentItems]]
                   /\ last' = Step("start", p, AbsentText, << >>, << >>)
                   /\ UNCHANGED <<rfqStore, quoteStore, lastWrite, parseResp>>
    /\ UNCHANGED <<now, ticks, getResp, quoteResp, nQuotes, clarifyVars>>

\* a success path that also discards the quotes of the RFQ it stores
ParseSucceed_DropsQuotes(p, text) ==
    LET res == result(req[p].rfqId, parsedDataOf(text), now)
        key == res.rfq_id
    IN  /\ rfqStore' = StorePut(rfqStore, key, res)
        /\ lastWrite' = [k \in DOMAIN lastWrite \cup {key} |->
                            IF k = key THEN [p |-> p, rec |-> res]
                            ELSE lastWrite[k]]
        /\ pc' = [pc EXCEPT ![p] = "done"]
        /\ req' = [req EXCEPT ![p] = NoReq]
        /\ parseResp' = [p |-> p, status |-> 200, body |-> Serialize(res)]
        /\ last' = Step("resolve", p, text, req[p].currentItems,
                        IF key \in DOMAIN rfqStore
                        THEN rfqStore[key].line_items ELSE << >>)
        /\ quoteStore' = [k \in DOMAIN quoteStore \ {key} |-> quoteStore[k]]

\* lines 168-185: build result, store it, answer with it
ParseSucceed(p, text) ==
    LET res == result(req[p].rfqId, parsedDataOf(text), now)
        key == res.rfq_id
    IN  /\ rfqStore' = StorePut(rfqStore, key, res)
        /\ lastWrite' = [k \in DOMAIN lastWrite \cup {key} |->
                            IF k = key THEN [p |-> p, rec |-> res]
                            ELSE lastWrite[k]]
        /\ pc' = [pc EXCEPT ![p] = "done"]
        /\ req' = [req EXCEPT ![p] = NoReq]
        /\ parseResp' = [p |-> p, status |-> 200, body |-> Serialize(res)]
        /\ last' = Step("resolve", p, text, req[p].currentItems,
                        IF key \in DOMAIN rfqStore
                        THEN rfqStore[key].line_items ELSE << >>)
        /\ UNCHANGED quoteStore

\* the extraction call resolves: lines 149-185, or the catch block
ExtractionResolve(p, arrays) ==
    /\ pc[p] = "awaiting"
    /\ \E text \in Responses(arrays, req[p].currentItems) :
          IF JsonParseThrows(text)
          THEN ParseFail(p, "resolve", text, "SyntaxError")
          ELSE IF MapThrows(parsedDataOf(text))
          THEN ParseFail(p, "resolve", text, "TypeError")
          ELSE ParseSucceed(p, text)
    /\ UNCHANGED <<now, ticks, getResp, quoteResp, nQuotes, clarifyVars>>

\* the extraction call rejects (network error, quota, bad API key)
ExtractionReject(p) ==
    /\ pc[p] = "awaiting"
    /\ ParseFail(p, "reject", AbsentText, "fetch failed")
    /\ UNCHANGED <<now, ticks, getResp, quoteResp, nQuotes, clarifyVars>>

GetIds == {"R1", "nope"} \cup ProtoKeys

\* Get RFQ, lines 224-228
GetRfq(id) ==
    /\ getResp' = [id |-> id] @@ GetRfqResponse(rfqStore, id)
    /\ UNCHANGED <<rfqStore, quoteStore, now, ticks, pc, req, parseResp,
                   quoteResp, nQuotes, lastWrite, last, clarifyVars>>

QuoteIds == {"R1"} \cup ProtoKeys
Quotes == {"q1"}

\* if(!quoteStore[id]) quoteStore[id] = []; quoteStore[id].push(quote)
QuotePush(store, id, quote) ==
    [k \in DOMAIN store \cup {id} |->
        IF k = id
        THEN Append(IF id \in DOMAIN store THEN store[id] ELSE << >>, quote)
        ELSE store[k]]

\* Submit Quote, lines 231-237
SubmitQuote(id, quote) ==
    /\ nQuotes < MaxQuotes
    /\ nQuotes' = nQuotes + 1
    /\ IF id \notin DOMAIN quoteStore /\ id \in ProtoKeys
       THEN \* quoteStore[id] is an inherited function: push is undefined
            /\ quoteResp' = [id |-> id, status |-> 500,
                             body |-> ErrorBody("TypeError")]
            /\ UNCHANGED quoteStore
       ELSE /\ quoteStore' = QuotePush(quoteStore, id, quote)
            /\ quoteResp' = [id |-> id, status |-> 200,
                             body |-> [success |-> TRUE]]
    /\ UNCHANGED <<rfqStore, now, ticks, pc, req, parseResp, getResp, lastWrite,
                   last, clarifyVars>>

\* time passes: one millisecond, or ten seconds
Tick ==
    /\ ticks < MaxTicks
    /\ ticks' = ticks + 1
    /\ \E d \in {1, SliceMod} : now' = now + d
    /\ UNCHANGED <<rfqStore, quoteStore, pc, req, parseResp, getResp,
                   quoteResp, nQuotes, lastWrite, last, clarifyVars>>

(***************************************************************************)
(* Clarify, lines 194-221: an async handler that suspends at the           *)
(* summarization call; everything is inside one try block.                 *)
(***************************************************************************)
\* "I've updated the table. Please review the details."
FallbackMessage == "I've updated the table. Please review the details."

\* rfq.line_items.slice(0, 3)
SampleSize == 3

\* req.body.rfq: missing; without line_items; with line_items that are null,
\* no array, an array with a null element, or an empty array; or an RFQ this
\* server returned
ClarifyRfqInputs ==
    {NullObj}
    \cup {[line_items |-> la] :
            la \in {[kind |-> "missing"], [kind |-> "null"], [kind |-> "other"],
                    [kind |-> "array", elems |-> <<NullObj>>],
                    [kind |-> "array", elems |-> << >>]}}
    \cup {[line_items |-> [kind |-> "array",
                           elems |-> Serialize(rfqStore[k]).line_items]] :
            k \in DOMAIN rfqStore}

\* lines 206-209 throw a TypeError: line_items is read from a missing rfq,
\* length from a missing or null line_items, slice or map from a value that
\* is no array, or quantity from a null item among the first three
SummaryThrows(rfq) ==
    \/ rfq = NullObj
    \/ rfq.line_items.kind # "array"
    \/ \E i \in 1..Len(rfq.line_items.elems) :
          i <= SampleSize /\ rfq.line_items.elems[i] = NullObj

\* a catch block that reports the failure
ClarifyFail_Status500(c, why) ==
    /\ cpc' = [cpc EXCEPT ![c] = "done"]
    /\ clarifyResp' = [c |-> c, why |-> why, status |-> 500,
                       body |-> ErrorBody(why)]
    /\ UNCHANGED serverVars

\* the catch block, lines 218-220
ClarifyFail(c, why) ==
    /\ cpc' = [cpc EXCEPT ![c] = "done"]
    /\ clarifyResp' = [c |-> c, why |-> why, status |-> 200,
                       body |-> [message |-> FallbackMessage]]
    /\ UNCHANGED serverVars

\* lines 195-211: read the body, summarize the RFQ, call the summarizer
ClarifyStart(c) ==
    /\ cpc[c] = "idle"
    /\ \A d \in 1..(c - 1) : cpc[d] # "idle"
    /\ \E rfq \in ClarifyRfqInputs :
          IF SummaryThrows(rfq)
          THEN ClarifyFail(c, "TypeError")
          ELSE /\ cpc' = [cpc EXCEPT ![c] = "awaiting"]
               /\ UNCHANGED <<clarifyResp, serverVars>>

\* the texts the summarization call can resolve with: none, or a sentence
ClarifyTexts == {Undef, "I've removed line 3 as requested."}

\* the summarization call resolves: res.json({ message: response.text })
ClarifyResolve(c) ==
    /\ cpc[c] = "awaiting"
    /\ \E text \in ClarifyTexts :
          clarifyResp' = [c |-> c, why |-> "ok", status |-> 200,
                          body |-> Defined([message |-> text], {"message"})]
    /\ cpc' = [cpc EXCEPT ![c] = "done"]
    /\ UNCHANGED serverVars

\* the summarization call rejects
ClarifyReject(c) ==
    /\ cpc[c] = "awaiting"
    /\ ClarifyFail(c, "rejected")

\* a client that sends its next request after the response to the last one
EditStart(p) ==
    /\ \A q \in Procs : pc[q] # "awaiting"
    /\ ParseStart(p, EditRfqIds)

\* concurrent clients
Next ==
    \/ \E p \in Procs : ParseStart(p, BodyRfqIds)
    \/ \E p \in Procs : ExtractionResolve(p, RaceArrays)
    \/ \E p \in Procs : ExtractionReject(p)
    \/ \E id \in GetIds : GetRfq(id)
    \/ \E id \in QuoteIds, q \in Quotes : SubmitQuote(id, q)

Spec == Init /\ [][Next]_vars

\* one client, creating an RFQ and editing it, pass after pass
NextEdit ==
    \/ \E p \in Procs : EditStart(p)
    \/ \E p \in Procs : ExtractionResolve(p, AllArrays)
    \/ \E p \in Procs : ExtractionReject(p)
    \/ Tick

SpecEdit == Init /\ [][NextEdit]_vars

\* one client, creating an RFQ and editing it, pass after pass, within one
\* millisecond: the behaviours of SpecEdit in which the clock stands still
NextMap ==
    \/ \E p \in Procs : EditStart(p)
    \/ \E p \in Procs : ExtractionResolve(p, AllArrays)
    \/ \E p \in Procs : ExtractionReject(p)

SpecMap == Init /\ [][NextMap]_vars

\* clients that create RFQs, at the same time or one after the other, while
\* time passes
NextCreate ==
    \/ \E p \in Procs : ParseStart(p, {Undef})
    \/ \E p \in Procs : ExtractionResolve(p, RaceArrays)
    \/ \E p \in Procs : ExtractionReject(p)
    \/ Tick

SpecCreate == Init /\ [][NextCreate]_vars

\* the extraction outputs of the clients that wait for an answer
AwaitArrays == {<<RawScenario>>}

\* clients that edit the RFQ "R1", quote for it and ask for confirmations,
\* while the extraction and summarization services answer or stay silent
NextAwait ==
    \/ \E p \in Procs : ParseStart(p, {"R1"})
    \/ \E p \in Procs : ExtractionResolve(p, AwaitArrays)
    \/ \E p \in Procs : ExtractionReject(p)
    \/ \E q \in Quotes : SubmitQuote("R1", q)
    \/ \E c \in Procs : ClarifyStart(c)
    \/ \E c \in Procs : ClarifyResolve(c)
    \/ \E c \in Procs : ClarifyReject(c)

\* the event loop runs the handler of every request that has arrived, up to
\* its await; nothing makes the two services answer
FairAwait ==
    /\ \A p \in Procs : WF_vars(ParseStart(p, {"R1"}))
    /\ \A c \in Procs : WF_vars(ClarifyStart(c))

SpecAwait == Init /\ [][NextAwait]_vars /\ FairAwait

(***************************************************************************)
(* Properties.                                                             *)
(***************************************************************************)
\* the latest Parse/Edit step was the resolution of an extraction call that
\* ended in a stored result
Resolved == last.op = "resolve" /\ parseResp.status = 200

\* the record that step stored
Stored == rfqStore[parseResp.body.rfq_id]

\* the raw items of the text that step got
RawOf(text) == lineItemsOf(parsedDataOf(text)).elems

\* C1: the RFQ store is replaced on success only.  A step in which a
\* Parse/Edit request fails changes neither store; the RFQ store changes only
\* in the step in which a request's extraction call has resolved and the
\* request completes, and then one key gets the full item list; a request
\* that has completed or failed takes no further step.
C1_ReplaceOnSuccessOnly ==
    [][ /\ \A p \in Procs :
            (pc[p] # "failed" /\ pc'[p] = "failed")
                => (rfqStore' = rfqStore /\ quoteStore' = quoteStore)
        /\ (rfqStore' # rfqStore) =>
              \E p \in Procs :
                 /\ pc[p] = "awaiting" /\ pc'[p] = "done"
                 /\ last'.op = "resolve" /\ last'.p = p
                 /\ \E key \in DOMAIN rfqStore' :
                       /\ \A k \in DOMAIN rfqStore : k # key => rfqStore'[k] = rfqStore[k]
                       /\ DOMAIN rfqStore' = DOMAIN rfqStore \cup {key}
                       /\ Len(rfqStore'[key].line_items) = Len(RawOf(last'.text))
        /\ \A p \in Procs :
              pc[p] \in {"done", "failed"} => pc'[p] = pc[p] ]_vars

\* C1 witness: a request failed on an unparseable extraction text while the
\* stores held an RFQ and a quote
C1_Witness ==
    /\ last.op = "resolve" /\ last.text = BadText
    /\ pc[last.p] = "failed" /\ parseResp.status = 500
    /\ "R1" \in DOMAIN rfqStore /\ Len(rfqStore["R1"].line_items) > 0
    /\ "R1" \in DOMAIN quoteStore

\* C2: in every stored RFQ and in every RFQ returned by Parse/Edit, the k-th
\* line item has line = k.
C2_LineNumbering ==
    /\ \A k \in DOMAIN rfqStore :
          \A i \in 1..Len(rfqStore[k].line_items) :
             rfqStore[k].line_items[i].line = i
    /\ parseResp.status = 200 =>
          \A i \in 1..Len(parseResp.body.line_items) :
             parseResp.body.line_items[i].line = i

\* C2 witness: an edit of a two-item RFQ returned the second item alone, which
\* is now line 1
C2_Witness ==
    /\ Resolved
    /\ Len(last.prior) = 2 /\ Len(Stored.line_items) = 1
    /\ last.prior[2].line = 2
    /\ Stored.line_items[1].item_id = last.prior[2].item_id
    /\ Stored.line_items[1].line = 1
    /\ parseResp.body.line_items[1].line = 1

\* C3 (as claimed): no two line items of a stored RFQ have the same item_id.
C3_ItemIdUnique ==
    \A k \in DOMAIN rfqStore :
       \A i, j \in 1..Len(rfqStore[k].line_items) :
          i # j => rfqStore[k].line_items[i].item_id # rfqStore[k].line_items[j].item_id

Renumber(its) == [i \in 1..Len(its) |-> [its[i] EXCEPT !.line = i]]

\* C4: when the extraction output echoes a subsequence of the items stored
\* under the request's rfq_id, the result is exactly those items, with their
\* item_ids and field values, in that order, renumbered from 1.
C4_IdentityPreserved ==
    Resolved =>
       \A idx \in SUBSET (1..Len(last.prior)) :
          RawOf(last.text) = SubSeqAt([i \in 1..Len(last.prior) |-> Echo(last.prior[i])], idx)
             => /\ Stored.line_items = Renumber(SubSeqAt(last.prior, idx))
                /\ parseResp.body.line_items =
                      [i \in 1..Len(Stored.line_items) |->
                          SerializeItem(Renumber(SubSeqAt(last.prior, idx))[i])]

\* C4 witness: the stored RFQ had two items with different item_ids; the
\* extraction echoed the second and omitted the first
C4_Witness ==
    /\ Resolved
    /\ Len(last.prior) = 2
    /\ last.prior[1].item_id # last.prior[2].item_id
    /\ RawOf(last.text) = <<Echo(last.prior[2])>>
    /\ Stored.line_items = <<[last.prior[2] EXCEPT !.line = 1]>>

\* C5 (as claimed): an output item keeps the extracted item_id only when that
\* item_id is the item_id of one of the request's current items; otherwise
\* its item_id is not the extracted one.
C5_IdentityRule ==
    Resolved =>
       \A i \in 1..Len(RawOf(last.text)) :
          LET raw == GetProp(RawOf(last.text)[i], "item_id")
              out == Stored.line_items[i].item_id
          IN IF \E j \in 1..Len(last.current) : last.current[j].item_id = raw
             THEN out = raw
             ELSE out # raw

\* the extraction output is absent, not parseable, or not an object with a
\* line_items array
Malformed(text) ==
    \/ text.kind \in {"absent", "unparseable"}
    \/ /\ text.kind = "json"
       /\ \/ text.value = NullObj
          \/ "line_items" \notin DOMAIN text.value
          \/ /\ "line_items" \in DOMAIN text.value
             /\ text.value.line_items.kind # "array"

\* C6 (as claimed): a malformed extraction output ends the request with an
\* error response.
C6_MalformedIsError ==
    (last.op = "resolve" /\ Malformed(last.text)) => parseResp.status = 500

UnitSet == {"mm", "m", "in", "ft", "pcs"}

\* C7 (as claimed): the unit of every dimension of every stored line item is
\* unset or one of mm, m, in, ft, pcs.
C7_UnitClosedSet ==
    \A k \in DOMAIN rfqStore :
       \A i \in 1..Len(rfqStore[k].line_items) :
          LET sz == rfqStore[k].line_items[i].size IN
          /\ sz.outer_diameter.unit \in UnitSet \cup {Undef, Null}
          /\ sz.wall_thickness.unit \in UnitSet \cup {Undef, Null}
          /\ sz.length.unit \in UnitSet \cup {Undef, Null}

\* C8 (as claimed): every RFQ sent to the client has all the keys of the
\* RFQ, of commercial, of every line item and of every dimension.
C8_TotalKeys ==
    parseResp.status = 200 =>
       /\ {"rfq_id", "project_name", "commercial", "line_items"}
             \subseteq DOMAIN parseResp.body
       /\ {"destination", "incoterm", "payment_term", "other_requirements"}
             \subseteq DOMAIN parseResp.body.commercial
       /\ \A i \in 1..Len(parseResp.body.line_items) :
             LET it == parseResp.body.line_items[i] IN
             /\ {"item_id", "line", "description", "material_grade", "size",
                 "quantity", "uom"} \subseteq DOMAIN it
             /\ \A d \in {"outer_diameter", "wall_thickness", "length"} :
                   DOMAIN it.size[d] = {"value", "unit"}

\* C9: whatever Get RFQ returns for an identifier is, whole, the record that
\* the latest request to store under that identifier built: never a mixture.
C9_NoTornRead ==
    [][ getResp' # getResp =>
           IF getResp'.id \in DOMAIN lastWrite
           THEN /\ getResp'.status = 200
                /\ getResp'.body = Serialize(lastWrite[getResp'.id].rec)
           ELSE getResp'.body \in {NoBody, ErrorBody("Not found")} ]_vars

\* C9 witness: both requests stored under R1, and a Get RFQ between the two
\* writes returned the record of the first
C9_Witness ==
    /\ pc[1] = "done" /\ pc[2] = "done"
    /\ DOMAIN rfqStore = {"R1"}
    /\ getResp.id = "R1" /\ getResp.status = 200
    /\ getResp.body # Serialize(rfqStore["R1"])

\* C10: the store holds, under every key, exactly the record of the request
\* that wrote it last; and a request whose extraction output maps is answered
\* with its own record, whatever other requests did since it arrived.
C10_LastWriterWins ==
    /\ DOMAIN rfqStore = DOMAIN lastWrite
    /\ \A k \in DOMAIN rfqStore : rfqStore[k] = lastWrite[k].rec
    /\ (last.op = "resolve" /\ ~JsonParseThrows(last.text)
           /\ ~MapThrows(parsedDataOf(last.text)))
          => /\ parseResp.status = 200
             /\ parseResp.p = last.p
             /\ parseResp.body.rfq_id \in DOMAIN lastWrite
             /\ lastWrite[parseResp.body.rfq_id].p = last.p
             /\ parseResp.body = Serialize(rfqStore[parseResp.body.rfq_id])

\* C10 witness: request 1 arrived first, request 2 wrote R1 first (Get RFQ
\* saw its record), request 1 wrote R1 last and its record is the one stored
C10_Witness ==
    /\ pc[1] = "done" /\ pc[2] = "done"
    /\ DOMAIN rfqStore = {"R1"}
    /\ lastWrite["R1"].p = 1
    /\ getResp.id = "R1" /\ getResp.status = 200
    /\ getResp.body # Serialize(rfqStore["R1"])
    /\ parseResp.p = 1 /\ parseResp.body = Serialize(rfqStore["R1"])

\* C11: Get RFQ distinguishes unknown from empty.  A Get RFQ for an
\* identifier under which no RFQ is stored answers 404 with the error
\* "Not found", whatever the identifier is; a Get RFQ for an identifier
\* under which an RFQ is stored answers 200 with that record, also when the
\* record has no line items.
C11_UnknownIs404 ==
    [][ getResp' # getResp =>
          IF getResp'.id \in DOMAIN rfqStore
          THEN /\ getResp'.status = 200
               /\ getResp'.body = Serialize(rfqStore[getResp'.id])
          ELSE /\ getResp'.status = 404
               /\ getResp'.body = ErrorBody("Not found") ]_vars

\* C12: rfq_id is the store key and does not change.  After every step, every
\* record of the RFQ store has the rfq_id it is stored under; a Parse/Edit
\* request that supplied an rfqId and completes is answered with, and stores
\* under that identifier, a record whose rfq_id is that identifier; and a
\* Get RFQ on the rfq_id a Parse/Edit returned, or on any stored identifier,
\* answers a record with that rfq_id.
C12_RfqIdIsKey ==
    [][ /\ \A k \in DOMAIN rfqStore' : rfqStore'[k].rfq_id = k
        /\ \A p \in Procs :
             (pc[p] = "awaiting" /\ pc'[p] = "done") =>
                LET id == parseResp'.body.rfq_id IN
                /\ ~Falsy(req[p].rfqId) => id = req[p].rfqId
                /\ id \in DOMAIN rfqStore'
                /\ Serialize(rfqStore'[id]) = parseResp'.body
                /\ GetRfqResponse(rfqStore', id).status = 200
                /\ GetRfqResponse(rfqStore', id).body.rfq_id = id
        /\ (getResp' # getResp /\ getResp'.id \in DOMAIN rfqStore) =>
              getResp'.body.rfq_id = getResp'.id ]_vars

\* C12 witness: an edit that supplied "R1" replaced the record under "R1",
\* and a Get RFQ on "R1" returned a record with rfq_id "R1"
C12_Witness ==
    /\ Resolved
    /\ parseResp.body.rfq_id = "R1"
    /\ Len(last.prior) > 0
    /\ getResp.status = 200 /\ getResp.id = "R1"
    /\ getResp.body.rfq_id = "R1"

\* C13: Submit Quote is always accepted.  Every Submit Quote that has been
\* answered, whatever its rfq_id and payload and whether or not an RFQ is
\* stored under that rfq_id, was answered 200 with {success: true}, and its
\* payload is in the quote list of that rfq_id.
C13_QuoteAlwaysAccepted ==
    quoteResp.status # 0 =>
        /\ quoteResp.status = 200
        /\ quoteResp.body = [success |-> TRUE]
        /\ quoteResp.id \in DOMAIN quoteStore
        /\ Len(quoteStore[quoteResp.id]) > 0

\* s is a prefix of t
IsPrefix(s, t) == Len(s) <= Len(t) /\ SubSeq(t, 1, Len(s)) = s

\* C14: quote lists are append-only, in arrival order.  In every step, every
\* quote list is a prefix of the list under the same rfq_id after the step;
\* and every Submit Quote lengthens exactly one list, the one of its rfq_id,
\* by exactly one element at the end, and leaves every other list as it was.
C14_QuotesAppendOnly ==
    [][ /\ \A k \in DOMAIN quoteStore :
             k \in DOMAIN quoteStore' /\ IsPrefix(quoteStore[k], quoteStore'[k])
        /\ nQuotes' # nQuotes =>
             LET id == quoteResp'.id
                 old == IF id \in DOMAIN quoteStore THEN quoteStore[id] ELSE << >>
             IN  /\ id \in DOMAIN quoteStore'
                 /\ Len(quoteStore'[id]) = Len(old) + 1
                 /\ IsPrefix(old, quoteStore'[id])
                 /\ \A k \in DOMAIN quoteStore' \ {id} :
                       k \in DOMAIN quoteStore /\ quoteStore'[k] = quoteStore[k]
      ]_vars

\* C15: Clarify never hard-fails and writes nothing.  A step of a Clarify
\* request leaves the RFQ store and the quote store as they were; every
\* Clarify answer has status 200; and when building the summary threw (the
\* RFQ of the request is missing or malformed) or the summarization call
\* rejected, the answer carries the generic fallback message.
C15_ClarifyNeverFails ==
    [][ cpc' # cpc =>
          /\ rfqStore' = rfqStore /\ quoteStore' = quoteStore
          /\ \A c \in Procs :
               (cpc[c] # "done" /\ cpc'[c] = "done") =>
                  /\ clarifyResp'.c = c
                  /\ clarifyResp'.status = 200
                  /\ (cpc[c] = "idle" \/ clarifyResp'.why # "ok") =>
                        clarifyResp'.body = [message |-> FallbackMessage]
      ]_vars

\* C15 witness: the summarization call of a Clarify request rejected while
\* the stores held an RFQ and a quote, and the request was answered
C15_Witness ==
    /\ clarifyResp.why = "rejected"
    /\ clarifyResp.status = 200
    /\ cpc[clarifyResp.c] = "done"
    /\ "R1" \in DOMAIN rfqStore
    /\ "R1" \in DOMAIN quoteStore

\* C16: no request blocks indefinitely.  Every Parse/Edit request that waits
\* for the extraction service is eventually answered, with a result or an
\* error, also when the service never replies; and every Clarify request that
\* waits for the summarization service is eventually answered with a message.
C16_EventuallyAnswered ==
    /\ \A p \in Procs : (pc[p] = "awaiting") ~> (pc[p] \in {"done", "failed"})
    /\ \A c \in Procs : (cpc[c] = "awaiting") ~> (cpc[c] = "done")

\* C17: the mapping of dimensions is idempotent.  Mapping the echo of a
\* stored line item gives the three Dimension fields the item has; and when
\* the extraction output of a pass has, at some position, the echo of an item
\* of the previous pass, the item stored at that position has the three
\* Dimension fields of that item.
C17_DimensionIdempotent ==
    /\ \A k \in DOMAIN rfqStore :
         \A i \in 1..Len(rfqStore[k].line_items) :
            MapItem(Echo(rfqStore[k].line_items[i]), i - 1, now).size
               = rfqStore[k].line_items[i].size
    /\ Resolved =>
         \A i \in 1..Len(RawOf(last.text)) :
            \A j \in 1..Len(last.prior) :
               RawOf(last.text)[i] = Echo(last.prior[j])
                  => Stored.line_items[i].size = last.prior[j].size

\* C17 witness: a pass echoed an item whose outer diameter is 4 "inches" and
\* whose wall thickness has a null value, and stored it with those dimensions
C17_Witness ==
    /\ Resolved
    /\ Len(last.prior) > 0
    /\ RawOf(last.text) # << >>
    /\ RawOf(last.text)[1] = Echo(last.prior[1])
    /\ last.prior[1].size.outer_diameter.unit = "inches"
    /\ last.prior[1].size.wall_thickness.value = Null
    /\ Stored.line_items[1].size = last.prior[1].size

\* the value and unit an extracted item has under two keys of its size
RawDimension(li, valKey, unitKey) ==
    [value |-> IF GetObj(li, "size") = NullObj THEN Undef
               ELSE GetProp(GetObj(li, "size"), valKey),
     unit |-> IF GetObj(li, "size") = NullObj THEN Undef
              ELSE GetProp(GetObj(li, "size"), unitKey)]

\* C18: order is preserved and nothing is fabricated.  When the extraction
\* returned N line items, the stored and returned RFQ has exactly N line
\* items, and its k-th item has the description and material grade (the
\* empty string for a missing one), the dimension values and units, the
\* quantity and the uom of the k-th extracted item; so every item of the
\* result comes from the extraction output, whatever the prior list was.
C18_OrderPreserved ==
    Resolved =>
       LET raw == RawOf(last.text) IN
       /\ Len(Stored.line_items) = Len(raw)
       /\ Len(parseResp.body.line_items) = Len(raw)
       /\ \A k \in 1..Len(raw) :
            LET it == Stored.line_items[k]
                li == raw[k]
            IN  /\ it.description = IF Falsy(GetProp(li, "description")) THEN ""
                                    ELSE GetProp(li, "description")
                /\ it.material_grade =
                      IF Falsy(GetProp(li, "material_grade")) THEN ""
                      ELSE GetProp(li, "material_grade")
                /\ it.size.outer_diameter = RawDimension(li, "od_val", "od_unit")
                /\ it.size.wall_thickness = RawDimension(li, "wt_val", "wt_unit")
                /\ it.size.length = RawDimension(li, "len_val", "len_unit")
                /\ it.quantity = GetProp(li, "quantity")
                /\ it.uom = GetProp(li, "uom")
                /\ parseResp.body.line_items[k] = SerializeItem(it)

\* C18 witness: the RFQ held one item, a pipe; the extraction returned a
\* flange and then a pipe, and the result has the flange first, the pipe
\* second, and nothing else
C18_Witness ==
    /\ Resolved
    /\ Len(last.prior) = 1
    /\ last.prior[1].description = "pipe"
    /\ Len(RawOf(last.text)) = 2
    /\ GetProp(RawOf(last.text)[1], "description") = "flange"
    /\ GetProp(RawOf(last.text)[2], "description") = "pipe"
    /\ Len(Stored.line_items) = 2
    /\ Stored.line_items[1].description = "flange"
    /\ Stored.line_items[2].description = "pipe"

\* the keys of an RFQ record and of a line item, as res.json sends them
RfqKeys == {"rfq_id", "project_name", "commercial", "line_items"}
ItemKeys == {"item_id", "line", "description", "material_grade", "size",
             "quantity", "uom"}

\* C19: the two stores are independent.  A Submit Quote step leaves the RFQ
\* store as it was; a step of a Parse/Edit request leaves the quote store as
\* it was; a Get RFQ step leaves both stores as they were, and the record it
\* returns has the keys of an RFQ and of its line items only, so no quote.
C19_IndependentStores ==
    [][ /\ nQuotes' # nQuotes => rfqStore' = rfqStore
        /\ pc' # pc => quoteStore' = quoteStore
        /\ getResp' # getResp =>
             /\ rfqStore' = rfqStore /\ quoteStore' = quoteStore
             /\ getResp'.id \in DOMAIN rfqStore =>
                  /\ DOMAIN getResp'.body \subseteq RfqKeys
                  /\ \A i \in 1..Len(getResp'.body.line_items) :
                        DOMAIN getResp'.body.line_items[i] \subseteq ItemKeys
      ]_vars

\* C19 witness: the RFQ "R1" was stored again over a non-empty item list
\* while it had a quote, and a Get RFQ returned it
C19_Witness ==
    /\ Resolved
    /\ parseResp.body.rfq_id = "R1"
    /\ Len(last.prior) > 0
    /\ "R1" \in DOMAIN quoteStore
    /\ quoteStore["R1"] = <<"q1">>
    /\ quoteResp.status = 200
    /\ getResp.status = 200 /\ getResp.id = "R1"
    /\ Len(getResp.body.line_items) > 0

\* C20: creating an RFQ never clobbers another.  When a Parse/Edit request
\* that supplied no rfqId completes, the rfq_id it is answered with was not
\* in the RFQ store before, every record stored before is still stored
\* unchanged, and the store has one more RFQ than before.
C20_CreateNeverClobbers ==
    [][ \A p \in Procs :
          (pc[p] = "awaiting" /\ pc'[p] = "done" /\ Falsy(req[p].rfqId)) =>
             /\ parseResp'.body.rfq_id \notin DOMAIN rfqStore
             /\ \A k \in DOMAIN rfqStore :
                   k \in DOMAIN rfqStore' /\ rfqStore'[k] = rfqStore[k]
             /\ Cardinality(DOMAIN rfqStore') = Cardinality(DOMAIN rfqStore) + 1
      ]_vars

====
